---- MODULE Spec2Model ----
(***************************************************************************)
(* Model of the NHL Companion read-only HTTP API: the bearer-token gate    *)
(* (api/auth.py), the six data routes (api/router.py), the application's   *)
(* exception handlers (api_app.py) and the connection-per-call             *)
(* repositories (nhl_db/repositories).  One request is in flight at a      *)
(* time (the handlers are coroutines that call the blocking repositories   *)
(* without awaiting, so one worker runs them one after the other); an      *)
(* external writer and the wall clock act at any point in between.         *)
(***************************************************************************)
EXTENDS Integers, Sequences, FiniteSets, TLC

\* ------------------------------------------------------------------ bounds
MaxPlays == 2      \* plays the external writer inserts
MaxTicks == 2      \* clock advances observed
MaxPeriod == 2     \* highest period the external writer reports

\* ------------------------------------------------------- program constants
HTTP_200_OK == 200
HTTP_400_BAD_REQUEST == 400
HTTP_401_UNAUTHORIZED == 401
HTTP_403_FORBIDDEN == 403
HTTP_404_NOT_FOUND == 404
HTTP_422_UNPROCESSABLE_ENTITY == 422
HTTP_500_INTERNAL_SERVER_ERROR == 500

\* ------------------------------------------------------------ null values
NoCred == "<no Authorization header>"
NoSecret == "<API_BEARER_TOKEN unset>"
NoParam == "<absent>"
NoDate == <<"<absent>">>
NoRow == [none |-> TRUE]
NoExc == "<no exception>"
NoReq == [route |-> "<none>"]
NoResp == [status |-> 0, detail |-> <<>>, data |-> <<>>]
NoPrev == [status |-> 0, detail |-> <<>>, data |-> <<>>, failed |-> FALSE, date |-> NoDate]
NULL == "<NULL>"

\* ----------------------------------------------------------------- inputs
Routes == {"/api/teams", "/api/teams/active", "/api/games",
           "/api/teams/{team_id}/players", "/api/players/{player_id}",
           "/api/games/{game_id}"}

\* Presented credentials: none, the secret, and a string differing from the
\* secret only in case.
Credentials == {NoCred, "s3cret", "S3CRET"}
Secrets == {NoSecret, "s3cret"}

\* A date is the tuple of its characters.  "A5" stands for the single
\* non-ASCII decimal digit ARABIC-INDIC DIGIT FIVE.
AsciiDigits == {"0", "1", "2", "3", "4", "5", "6", "7", "8", "9"}
UnicodeDigits == AsciiDigits \cup {"A5"}
Date_0115 == <<"2", "0", "2", "4", "-", "0", "1", "-", "1", "5">>
Date_011A5 == <<"2", "0", "2", "4", "-", "0", "1", "-", "1", "A5">>
Date_ShortMonth == <<"2", "0", "2", "4", "-", "1", "-", "1", "5">>
Date_Trailing == <<"2", "0", "2", "4", "-", "0", "1", "-", "1", "5", "x">>
Date_Empty == << >>
DateParams == {NoDate, Date_0115, Date_011A5, Date_ShortMonth, Date_Trailing, Date_Empty}

TimezoneParams == {NoParam, "UTC", "Pacific/Auckland", "Not/AZone"}
IdParams == {1, 3, 9}
IdStr(n) == CASE n = 1 -> "1" [] n = 3 -> "3" [] n = 9 -> "9" [] OTHER -> "0"

\* The text of the low-level exceptions the store client and the response
\* models raise.
ExcConnect == "2003 (HY000): Can't connect to MySQL server on 'db.internal:3306'"
ExcCursor == "OperationalError: MySQL Connection not available"
ExcExecute == "1146 (42S02): Table 'nhl.plays' doesn't exist"
ExcCursorClose == "InternalError: Unread result found"
ExcValidation == "1 validation error: Input should be a valid string"
ExcEnv == "Missing required environment variable: API_BEARER_TOKEN"
StoreFailures == {ExcConnect, ExcCursor, ExcExecute, ExcCursorClose}
ExcTexts == {ExcConnect, ExcCursor, ExcExecute, ExcCursorClose, ExcValidation, ExcEnv}


\* ------------------------------------------------------------------ state
VARIABLES
    secret,              \* API_BEARER_TOKEN of the process environment, or NoSecret
    bearerMissingStatus, \* status HTTPBearer answers a request without credentials with
    ticks,               \* clock advances so far
    games,               \* store: games table, gameId -> row
    plays,               \* store: plays table, a set of rows
    req,                 \* the request in flight
    pc,                  \* where the request is
    callFn,              \* repository function being executed
    stage,               \* where that repository call is
    pending,             \* exception propagating out of the repository call
    rows,                \* rows the repository call fetched
    game,                \* get_game_detail's local `game`
    date,                \* get_games_by_date's local `date`
    resp,                \* the response sent
    openConns,           \* store connections open
    storeCalls,          \* repository functions invoked by this request, in order
    connsAcquired,       \* connections acquired by this request
    raised,              \* texts of the exceptions raised inside this request
    readSnap,            \* the store as the game read of this request saw it
    wroteBetween,        \* a write happened after the game read and before the plays read
    prev,                \* response to the same request sent just before, when it is repeated
    dirty                \* the store changed since the first of the repeated requests arrived

vars == <<secret, bearerMissingStatus, ticks, games, plays, req, pc, callFn, stage,
          pending, rows, game, date, resp, openConns, storeCalls, connsAcquired,
          raised, readSnap, wroteBetween, prev, dirty>>

storeVars == <<games, plays>>
configVars == <<secret, bearerMissingStatus>>
callVars == <<callFn, stage, pending, rows>>
ghostVars == <<readSnap, wroteBetween, prev, dirty>>

\* ------------------------------------------------------- the relational store
GameIds == {1, 3}

TeamRows ==
    { [teamId |-> 1, teamName |-> "Bruins", teamIsActive |-> TRUE],
      [teamId |-> 2, teamName |-> "Avalanche", teamIsActive |-> TRUE],
      [teamId |-> 3, teamName |-> "Nordiques", teamIsActive |-> FALSE] }

\* Player 3's first name is NULL in the store: PlayerResponse rejects the row.
PlayerRows ==
    { [playerId |-> 1, playerTeamId |-> 1, playerFirstName |-> "David",
       playerLastName |-> "Pastrnak", playerIsActive |-> TRUE],
      [playerId |-> 4, playerTeamId |-> 1, playerFirstName |-> "Brad",
       playerLastName |-> "Marchand", playerIsActive |-> TRUE],
      [playerId |-> 3, playerTeamId |-> 3, playerFirstName |-> NULL,
       playerLastName |-> "Stastny", playerIsActive |-> FALSE] }

\* Collation of the names the store holds.
NameRank(s) ==
    CASE s = NULL -> 0
      [] s = "Avalanche" -> 1 [] s = "Bruins" -> 2 [] s = "Nordiques" -> 3
      [] s = "Brad" -> 1 [] s = "David" -> 2
      [] s = "Marchand" -> 1 [] s = "Pastrnak" -> 2 [] s = "Stastny" -> 3
      [] OTHER -> 9

\* ORDER BY: the rows of S by ascending key.
RECURSIVE OrderByKey(_, _)
OrderByKey(S, key) ==
    IF S = {} THEN << >>
    ELSE LET m == CHOOSE x \in S : \A y \in S : key[x] <= key[y]
         IN  <<m>> \o OrderByKey(S \ {m}, key)

\* teams_repo.get_all_teams: SELECT ... FROM teams ORDER BY teamName
SelectAllTeams ==
    OrderByKey(TeamRows, [t \in TeamRows |-> NameRank(t.teamName)])

\* teams_repo.get_active_teams: ... WHERE teamIsActive = TRUE ORDER BY teamName
SelectActiveTeams ==
    LET S == {t \in TeamRows : t.teamIsActive}
    IN  OrderByKey(S, [t \in S |-> NameRank(t.teamName)])

\* players_repo.get_players_by_team: ... WHERE playerTeamId = %s
\* ORDER BY playerLastName, playerFirstName
SelectPlayersByTeam(team_id) ==
    LET S == {p \in PlayerRows : p.playerTeamId = team_id}
    IN  OrderByKey(S, [p \in S |-> 10 * NameRank(p.playerLastName)
                                    + NameRank(p.playerFirstName)])

\* players_repo.get_player_by_id: ... WHERE playerId = %s; fetchone()
SelectPlayerById(player_id) ==
    LET S == {p \in PlayerRows : p.playerId = player_id}
    IN  IF S = {} THEN NoRow ELSE CHOOSE p \in S : TRUE

\* The plays query without its WHERE clause.
SelectPlaysByGame_NoWhere(P, game_id) ==
    OrderByKey(P, [p \in P |-> 100 * p.playPeriod + p.playIndex])

\* plays_repo.get_plays_by_game: ... WHERE playGameId = %s
\* ORDER BY playPeriod, playIndex
SelectPlaysByGame(P, game_id) ==
    LET S == {p \in P : p.playGameId = game_id}
    IN  OrderByKey(S, [p \in S |-> 100 * p.playPeriod + p.playIndex])

\* games_repo.get_game_by_id
SelectGameById(G, game_id) ==
    IF game_id \in DOMAIN G THEN G[game_id] ELSE NoRow

\* Hours are counted from 2024-01-15T00:00Z; every date of the model lies in
\* January 2024.
StartHour == 3
TickHours == 9
Now == StartHour + ticks * TickHours

KnownTimezones == {"America/New_York", "UTC", "Pacific/Auckland"}
UtcOffset(tz) ==
    CASE tz = "America/New_York" -> 0 - 5
      [] tz = "Pacific/Auckland" -> 13
      [] OTHER -> 0

DigitValue(c) ==
    CASE c = "0" -> 0 [] c = "1" -> 1 [] c = "2" -> 2 [] c = "3" -> 3
      [] c = "4" -> 4 [] c = "5" -> 5 [] c = "6" -> 6 [] c = "7" -> 7
      [] c = "8" -> 8 [] c = "9" -> 9 [] c = "A5" -> 5 [] OTHER -> 0
DigitChar(n) ==
    CASE n = 0 -> "0" [] n = 1 -> "1" [] n = 2 -> "2" [] n = 3 -> "3"
      [] n = 4 -> "4" [] n = 5 -> "5" [] n = 6 -> "6" [] n = 7 -> "7"
      [] n = 8 -> "8" [] OTHER -> "9"
DayOfMonth(d) == 10 * DigitValue(d[9]) + DigitValue(d[10])

\* games_repo.get_games_by_date: the games whose UTC start lies in the civil
\* day [d 00:00, d+1 00:00) of the timezone, in chronological order.
SelectGamesByDate(G, d, tz) ==
    LET lo == (DayOfMonth(d) - 15) * 24 - UtcOffset(tz)
        S == {G[g] : g \in {x \in DOMAIN G : /\ G[x].gameDateTimeUtc >= lo
                                             /\ G[x].gameDateTimeUtc < lo + 24}}
    IN  OrderByKey(S, [r \in S |-> r.gameDateTimeUtc])


\* ------------------------------------------------------------- responses
Response(status, detail, data) == [status |-> status, detail |-> detail, data |-> data]
Pass == NoResp

\* api_app.general_exception_handler: the generic 500 for an exception no
\* handler caught.
general_exception_handler(exc) ==
    Response(HTTP_500_INTERNAL_SERVER_ERROR, <<"An unexpected error occurred">>, << >>)

\* api_app.validation_exception_handler: 422 with the list of violations.
validation_exception_handler(errors) ==
    Response(HTTP_422_UNPROCESSABLE_ENTITY, <<"Invalid request parameters">> \o errors, << >>)

\* ---------------------------------------------------------- api/auth.py
\* nhl_db.config.get_env("API_BEARER_TOKEN"), which raises RuntimeError when
\* the variable is not set; NoSecret stands for the raise.
get_api_token == secret

\* security = HTTPBearer(): a request that carries no bearer credential is
\* answered by the scheme itself, before verify_token's body runs.  The status
\* is the framework's (403 up to FastAPI 0.121, 401 from 0.122 on).
HTTPBearer(cred) ==
    IF cred = NoCred
    THEN Response(bearerMissingStatus, <<"Not authenticated">>, << >>)
    ELSE Pass

\* verify_token as it would be if an unset secret were read as a value no
\* credential equals (get_env with a default instead of a raise).
verify_token_RejectAll(cred) ==
    IF cred # get_api_token
    THEN Response(HTTP_401_UNAUTHORIZED, <<"Invalid authentication credentials">>, << >>)
    ELSE Pass

verify_token(cred) ==
    LET expected_token == get_api_token
    IN  IF expected_token = NoSecret
        THEN general_exception_handler(ExcEnv)
        ELSE IF cred # expected_token
             THEN Response(HTTP_401_UNAUTHORIZED, <<"Invalid authentication credentials">>, << >>)
             ELSE Pass

\* Depends(verify_token) with its sub-dependency Security(security).
Authenticate(cred) ==
    IF HTTPBearer(cred) # Pass THEN HTTPBearer(cred) ELSE verify_token(cred)

\* -------------------------------------------------------- api/models.py
TeamResponse(row) == [teamId |-> row.teamId, teamName |-> row.teamName,
                      teamIsActive |-> row.teamIsActive]
PlayerResponse(row) == [playerId |-> row.playerId, playerTeamId |-> row.playerTeamId,
                        playerFirstName |-> row.playerFirstName,
                        playerLastName |-> row.playerLastName]
GameResponse(row) == [gameId |-> row.gameId, gameDateTimeUtc |-> row.gameDateTimeUtc,
                      gameState |-> row.gameState, gamePeriod |-> row.gamePeriod]
PlayResponse(row) == [playId |-> row.playId, playGameId |-> row.playGameId,
                      playIndex |-> row.playIndex, playPeriod |-> row.playPeriod]

\* Required (non-Optional) str fields reject NULL.
ValidTeam(row) == row.teamName # NULL
ValidPlayer(row) == row.playerFirstName # NULL /\ row.playerLastName # NULL
ValidGame(row) == row # NoRow /\ row.gameState # NULL
ValidPlay(row) == TRUE

\* ---------------------------------------------------- request parameters
\* The pattern without its closing anchor.
DatePattern_Unanchored(d) ==
    /\ Len(d) >= 10
    /\ \A i \in {1, 2, 3, 4, 6, 7, 9, 10} : d[i] \in UnicodeDigits
    /\ d[5] = "-" /\ d[8] = "-"

\* Query(None, pattern=r"^\d{4}-\d{2}-\d{2}$"); \d matches every Unicode
\* decimal digit.
DatePattern(d) ==
    /\ Len(d) = 10
    /\ \A i \in {1, 2, 3, 4, 6, 7, 9, 10} : d[i] \in UnicodeDigits
    /\ d[5] = "-" /\ d[8] = "-"

\* Query("America/New_York")
Timezone(r) == IF r.timezone = NoParam THEN "America/New_York" ELSE r.timezone

\* pytz.timezone(zone) returns a zone; FALSE stands for UnknownTimeZoneError.
pytz_timezone(zone) == zone \in KnownTimezones

\* datetime.now(tz).strftime("%Y-%m-%d")
Today(tz) ==
    LET day == 15 + ((Now + UtcOffset(tz)) \div 24)
    IN  <<"2", "0", "2", "4", "-", "0", "1", "-", DigitChar(day \div 10), DigitChar(day % 10)>>

\* ------------------------------------------------ api/router.py: outcomes
\* The 500 with str(e) appended to its detail.
Failed_Leaks(route, id, d, e) ==
    Response(HTTP_500_INTERNAL_SERVER_ERROR, <<"Failed: ", e>>, << >>)

\* The HTTPException(500) each handler's `except Exception as e` raises.
Failed(route, id, d, e) ==
    Response(HTTP_500_INTERNAL_SERVER_ERROR,
        CASE route = "/api/teams" -> <<"Failed to fetch teams">>
          [] route = "/api/teams/active" -> <<"Failed to fetch active teams">>
          [] route = "/api/games" -> <<"Failed to fetch games for date ">> \o d
          [] route = "/api/teams/{team_id}/players" ->
                 <<"Failed to fetch players for team ", IdStr(id)>>
          [] route = "/api/players/{player_id}" -> <<"Failed to fetch player ", IdStr(id)>>
          [] OTHER -> <<"Failed to fetch game detail for game ", IdStr(id)>>,
        << >>)

\* The 400 swallowed by the catch-all (no `except HTTPException: raise`).
InvalidTimezone_CaughtAll(tz) ==
    Response(HTTP_500_INTERNAL_SERVER_ERROR, <<"Failed to fetch games for date ">>, << >>)

\* get_games_by_date: HTTPException(400) raised inside the try and re-raised
\* by `except HTTPException: raise`.
InvalidTimezone(tz) ==
    Response(HTTP_400_BAD_REQUEST,
             <<"Invalid timezone: ", tz, ". Must be a valid IANA timezone string.">>, << >>)

PlayerNotFound(id) ==
    Response(HTTP_404_NOT_FOUND, <<"Player ", IdStr(id), " not found">>, << >>)
GameNotFound(id) ==
    Response(HTTP_404_NOT_FOUND, <<"Game ", IdStr(id), " not found">>, << >>)

Map(f(_), s) == [i \in 1..Len(s) |-> f(s[i])]
AllValid(v(_), s) == \A i \in 1..Len(s) : v(s[i])


\* ------------------------------------------------------------------- Init
NoSnap == [none |-> TRUE]
NoCall == "<none>"

\* Game 1 is live and has no play recorded yet; game 3 is final, with one play.
InitialGames ==
    (1 :> [gameId |-> 1, gameDateTimeUtc |-> 2, gameState |-> "LIVE", gamePeriod |-> 1])
 @@ (3 :> [gameId |-> 3, gameDateTimeUtc |-> 30, gameState |-> "FINAL", gamePeriod |-> 1])
InitialPlays == {[playId |-> 1, playGameId |-> 3, playIndex |-> 1, playPeriod |-> 1]}

Init ==
    /\ secret \in Secrets
    /\ bearerMissingStatus \in {HTTP_401_UNAUTHORIZED, HTTP_403_FORBIDDEN}
    /\ ticks = 0
    /\ games = InitialGames
    /\ plays = InitialPlays
    /\ req = NoReq
    /\ pc = "idle"
    /\ callFn = NoCall
    /\ stage = NoCall
    /\ pending = NoExc
    /\ rows = << >>
    /\ game = NoRow
    /\ date = NoDate
    /\ resp = NoResp
    /\ openConns = 0
    /\ storeCalls = << >>
    /\ connsAcquired = 0
    /\ raised = {}
    /\ readSnap = NoSnap
    /\ wroteBetween = FALSE
    /\ prev = NoPrev
    /\ dirty = FALSE

\* ------------------------------------------------------------ environment
Request(route, cred, d, tz, id) ==
    [route |-> route, cred |-> cred, date |-> d, timezone |-> tz, id |-> id]

Requests ==
    {Request(rt, c, NoDate, NoParam, 0) :
        rt \in {"/api/teams", "/api/teams/active"}, c \in Credentials}
    \cup {Request("/api/games", c, d, tz, 0) :
        c \in Credentials, d \in DateParams, tz \in TimezoneParams}
    \cup {Request(rt, c, NoDate, NoParam, i) :
        rt \in {"/api/teams/{team_id}/players", "/api/players/{player_id}",
                "/api/games/{game_id}"},
        c \in Credentials, i \in IdParams}

\* A client sends a request.
Receive ==
    /\ pc = "idle"
    /\ \E r \in Requests : req' = r
    /\ pc' = "security"
    /\ dirty' = FALSE
    /\ UNCHANGED <<configVars, ticks, storeVars, callVars, game, date, resp, openConns,
                   storeCalls, connsAcquired, raised, readSnap, wroteBetween, prev>>

\* The data-ingestion process (outside this system) records a play of a live
\* game, in its current period or opening the next one, and brings the game's
\* period up to it, in one transaction.
PlaysReadDone ==
    callFn = "plays_repo.get_plays_by_game" /\ stage \in {"curclose", "connclose", "returned"}

Writer ==
    /\ Cardinality(plays \ InitialPlays) < MaxPlays
    /\ \E g \in {x \in GameIds : games[x].gameState = "LIVE"}, p \in 1..MaxPeriod :
         /\ p \in {games[g].gamePeriod, games[g].gamePeriod + 1}
         /\ plays' = plays \cup
              {[playId |-> Cardinality(plays) + 1, playGameId |-> g,
                playIndex |-> Cardinality({x \in plays : x.playGameId = g}) + 1,
                playPeriod |-> p]}
         /\ games' = [games EXCEPT ![g].gamePeriod = p]
    /\ dirty' = TRUE
    /\ wroteBetween' = (wroteBetween \/ (readSnap # NoSnap /\ ~PlaysReadDone))
    /\ UNCHANGED <<configVars, ticks, req, pc, callVars, game, date, resp, openConns,
                   storeCalls, connsAcquired, raised, readSnap, prev>>

\* Wall-clock time passes.
Tick ==
    /\ ticks < MaxTicks
    /\ ticks' = ticks + 1
    /\ UNCHANGED <<configVars, storeVars, req, pc, callVars, game, date, resp, openConns,
                   storeCalls, connsAcquired, raised, ghostVars>>

\* --------------------------------------------------- dependency resolution
\* Depends(verify_token) is solved before the handler's own parameters are
\* validated; an HTTPException raised there ends the request.
Security ==
    /\ pc = "security"
    /\ LET out == Authenticate(req.cred)
       IN  IF out = Pass
           THEN pc' = "validate" /\ UNCHANGED resp
           ELSE pc' = "done" /\ resp' = out
    /\ raised' = IF req.cred # NoCred /\ get_api_token = NoSecret
                 THEN raised \cup {ExcEnv} ELSE raised
    /\ UNCHANGED <<configVars, ticks, storeVars, req, callVars, game, date, openConns,
                   storeCalls, connsAcquired, ghostVars>>

\* Query-parameter validation: a date that does not match the pattern raises
\* RequestValidationError, which validation_exception_handler answers.
Validate ==
    /\ pc = "validate"
    /\ IF req.route = "/api/games" /\ req.date # NoDate /\ ~DatePattern(req.date)
       THEN /\ resp' = validation_exception_handler(<<"query.date: string_pattern_mismatch">>)
            /\ pc' = "done"
       ELSE pc' = "handler" /\ UNCHANGED resp
    /\ UNCHANGED <<configVars, ticks, storeVars, req, callVars, game, date, openConns,
                   storeCalls, connsAcquired, raised, ghostVars>>


\* ------------------------------------------------ nhl_db/repositories/*.py
\* Every repository function has the same shape:
\*     conn = get_db_connection()
\*     try:
\*         cur = conn.cursor(dictionary=True)
\*         try:     cur.execute(sql, args); return cur.fetchall()  (or fetchone)
\*         except Exception as e: logger.error(...); raise
\*         finally: cur.close()
\*     finally: conn.close()
\* and runs here one statement at a time; each statement may raise.

\* The handler calls the repository function fn.
Invoke(fn) ==
    /\ callFn' = fn
    /\ stage' = "connect"
    /\ pending' = NoExc
    /\ rows' = << >>
    /\ storeCalls' = Append(storeCalls, fn)
    /\ pc' = "repo"

\* What the function's SQL selects from the store as it is now.
Fetch(fn) ==
    CASE fn = "teams_repo.get_all_teams" -> SelectAllTeams
      [] fn = "teams_repo.get_active_teams" -> SelectActiveTeams
      [] fn = "games_repo.get_games_by_date" -> SelectGamesByDate(games, date, Timezone(req))
      [] fn = "players_repo.get_players_by_team" -> SelectPlayersByTeam(req.id)
      [] fn = "players_repo.get_player_by_id" -> SelectPlayerById(req.id)
      [] fn = "games_repo.get_game_by_id" -> SelectGameById(games, req.id)
      [] OTHER -> SelectPlaysByGame(plays, req.id)

repoFrame == <<configVars, ticks, storeVars, req, game, date, resp, storeCalls, prev, dirty>>

\* conn = get_db_connection(): a new connection, or the exception leaves the
\* function (nothing was acquired).
get_db_connection ==
    /\ pc = "repo" /\ stage = "connect"
    /\ \/ /\ openConns' = openConns + 1
          /\ connsAcquired' = connsAcquired + 1
          /\ stage' = "cursor"
          /\ UNCHANGED <<pc, pending, raised>>
       \/ /\ pending' = ExcConnect
          /\ raised' = raised \cup {ExcConnect}
          /\ stage' = "returned"
          /\ pc' = "resume"
          /\ UNCHANGED <<openConns, connsAcquired>>
    /\ UNCHANGED <<repoFrame, callFn, rows, readSnap, wroteBetween>>

\* conn.cursor() called before the outer try: when it raises, the connection
\* is never closed.
conn_cursor_OutsideTry ==
    /\ pc = "repo" /\ stage = "cursor"
    /\ \/ /\ stage' = "execute"
          /\ UNCHANGED <<pc, pending, raised>>
       \/ /\ pending' = ExcCursor
          /\ raised' = raised \cup {ExcCursor}
          /\ stage' = "returned"
          /\ pc' = "resume"
    /\ UNCHANGED <<repoFrame, callFn, rows, openConns, connsAcquired, readSnap,
                   wroteBetween>>

\* cur = conn.cursor(dictionary=True), inside the outer try: when it raises,
\* control goes to the outer finally.
conn_cursor ==
    /\ pc = "repo" /\ stage = "cursor"
    /\ \/ /\ stage' = "execute"
          /\ UNCHANGED <<pending, raised>>
       \/ /\ pending' = ExcCursor
          /\ raised' = raised \cup {ExcCursor}
          /\ stage' = "connclose"
    /\ UNCHANGED <<repoFrame, pc, callFn, rows, openConns, connsAcquired, readSnap,
                   wroteBetween>>

\* cur.execute(sql, args); return cur.fetchall(): the rows, or the exception is
\* logged and re-raised; either way the inner finally runs next.
cur_execute ==
    /\ pc = "repo" /\ stage = "execute"
    /\ \/ /\ rows' = Fetch(callFn)
          /\ readSnap' = IF callFn = "games_repo.get_game_by_id"
                         THEN [games |-> games, plays |-> plays] ELSE readSnap
          /\ UNCHANGED <<pending, raised>>
       \/ /\ pending' = ExcExecute
          /\ raised' = raised \cup {ExcExecute}
          /\ UNCHANGED <<rows, readSnap>>
    /\ stage' = "curclose"
    /\ UNCHANGED <<repoFrame, pc, callFn, openConns, connsAcquired, wroteBetween>>

\* finally: cur.close(); an exception raised here replaces the return value or
\* the exception on its way out.
cur_close ==
    /\ pc = "repo" /\ stage = "curclose"
    /\ \/ UNCHANGED <<pending, raised>>
       \/ /\ pending' = ExcCursorClose
          /\ raised' = raised \cup {ExcCursorClose}
    /\ stage' = "connclose"
    /\ UNCHANGED <<repoFrame, pc, callFn, rows, openConns, connsAcquired, readSnap,
                   wroteBetween>>

\* finally: conn.close(); the function returns or raises to the handler.
conn_close ==
    /\ pc = "repo" /\ stage = "connclose"
    /\ openConns' = openConns - 1
    /\ stage' = "returned"
    /\ pc' = "resume"
    /\ UNCHANGED <<repoFrame, callFn, pending, rows, connsAcquired, raised, readSnap,
                   wroteBetween>>


\* --------------------------------------------------- api/router.py: handlers
\* The result of a handler's try body: the exception that left it (NoExc when
\* none did) or the response (a return value or an HTTPException).
Raises(e) == [exc |-> e, resp |-> NoResp]
Returns(r) == [exc |-> NoExc, resp |-> r]
Ok(data) == Response(HTTP_200_OK, << >>, data)

\* except HTTPException: raise / except Exception as e: raise HTTPException(500)
Except(out, r, d) ==
    IF out.exc # NoExc THEN Failed(r.route, r.id, d, out.exc) ELSE out.resp

\* teams = teams_repo.get_all_teams(); return [TeamResponse(**team) ...]
get_all_teams_body(exc, teams) ==
    IF exc # NoExc THEN Raises(exc)
    ELSE IF ~AllValid(ValidTeam, teams) THEN Raises(ExcValidation)
    ELSE Returns(Ok(Map(TeamResponse, teams)))

get_active_teams_body(exc, teams) ==
    IF exc # NoExc THEN Raises(exc)
    ELSE IF ~AllValid(ValidTeam, teams) THEN Raises(ExcValidation)
    ELSE Returns(Ok(Map(TeamResponse, teams)))

\* games = games_repo.get_games_by_date(date, timezone); return [GameResponse...]
get_games_by_date_body(exc, gs) ==
    IF exc # NoExc THEN Raises(exc)
    ELSE IF ~AllValid(ValidGame, gs) THEN Raises(ExcValidation)
    ELSE Returns(Ok(Map(GameResponse, gs)))

\* The date resolved to today whether or not one was supplied.
ResolveDate_AlwaysToday(d, tz) == Today(tz)

\* if date is None: date = datetime.now(tz).strftime("%Y-%m-%d")
ResolveDate(d, tz) == IF d = NoDate THEN Today(tz) ELSE d

\* players = ...; if not players: return []; return [PlayerResponse(**p) ...]
get_players_by_team_body(exc, players) ==
    IF exc # NoExc THEN Raises(exc)
    ELSE IF players = << >> THEN Returns(Ok(<< >>))
    ELSE IF ~AllValid(ValidPlayer, players) THEN Raises(ExcValidation)
    ELSE Returns(Ok(Map(PlayerResponse, players)))

\* player = ...; if not player: raise HTTPException(404); return PlayerResponse
get_player_by_id_body(exc, player, id) ==
    IF exc # NoExc THEN Raises(exc)
    ELSE IF player = NoRow THEN Returns(PlayerNotFound(id))
    ELSE IF ~ValidPlayer(player) THEN Raises(ExcValidation)
    ELSE Returns(Ok(<<PlayerResponse(player)>>))

\* The existence check dropped.
GameMissing_Never(g) == FALSE

\* `if not game`
GameMissing(g) == g = NoRow

\* The handler answering 404 when the game has no plays.
get_game_detail_body_404OnEmpty(exc, g, ps) ==
    IF exc # NoExc THEN Raises(exc)
    ELSE IF ps = << >> THEN Returns(GameNotFound(0))
    ELSE IF GameMissing(g) \/ ~ValidGame(g) \/ ~AllValid(ValidPlay, ps) THEN Raises(ExcValidation)
    ELSE Returns(Ok(<<[game |-> GameResponse(g), plays |-> Map(PlayResponse, ps)]>>))

\* return GameDetailResponse(game=GameResponse(**game), plays=[PlayResponse...])
get_game_detail_body(exc, g, ps) ==
    IF exc # NoExc THEN Raises(exc)
    ELSE IF GameMissing(g) \/ ~ValidGame(g) \/ ~AllValid(ValidPlay, ps) THEN Raises(ExcValidation)
    ELSE Returns(Ok(<<[game |-> GameResponse(g), plays |-> Map(PlayResponse, ps)]>>))

handlerFrame == <<configVars, ticks, storeVars, req, openConns, connsAcquired, ghostVars>>

\* The handler ends: its response (or the HTTPException it raised) is sent.
Send(out, d) ==
    /\ resp' = Except(out, req, d)
    /\ raised' = IF out.exc # NoExc THEN raised \cup {out.exc} ELSE raised
    /\ pc' = "done"

\* GET /api/teams
get_all_teams ==
    /\ req.route = "/api/teams"
    /\ \/ /\ pc = "handler"
          /\ Invoke("teams_repo.get_all_teams")
          /\ UNCHANGED <<resp, raised>>
       \/ /\ pc = "resume"
          /\ Send(get_all_teams_body(pending, rows), date)
          /\ UNCHANGED <<callVars, storeCalls>>
    /\ UNCHANGED <<handlerFrame, game, date>>

\* GET /api/teams/active
get_active_teams ==
    /\ req.route = "/api/teams/active"
    /\ \/ /\ pc = "handler"
          /\ Invoke("teams_repo.get_active_teams")
          /\ UNCHANGED <<resp, raised>>
       \/ /\ pc = "resume"
          /\ Send(get_active_teams_body(pending, rows), date)
          /\ UNCHANGED <<callVars, storeCalls>>
    /\ UNCHANGED <<handlerFrame, game, date>>

\* GET /api/games
get_games_by_date ==
    /\ req.route = "/api/games"
    /\ \/ /\ pc = "handler"
          /\ IF ~pytz_timezone(Timezone(req))
             THEN /\ resp' = InvalidTimezone(Timezone(req))
                  /\ pc' = "done"
                  /\ UNCHANGED <<callVars, storeCalls, date>>
             ELSE /\ date' = ResolveDate(req.date, Timezone(req))
                  /\ Invoke("games_repo.get_games_by_date")
                  /\ UNCHANGED resp
          /\ UNCHANGED raised
       \/ /\ pc = "resume"
          /\ Send(get_games_by_date_body(pending, rows), date)
          /\ UNCHANGED <<callVars, storeCalls, date>>
    /\ UNCHANGED <<handlerFrame, game>>

\* GET /api/teams/{team_id}/players
get_players_by_team ==
    /\ req.route = "/api/teams/{team_id}/players"
    /\ \/ /\ pc = "handler"
          /\ Invoke("players_repo.get_players_by_team")
          /\ UNCHANGED <<resp, raised>>
       \/ /\ pc = "resume"
          /\ Send(get_players_by_team_body(pending, rows), date)
          /\ UNCHANGED <<callVars, storeCalls>>
    /\ UNCHANGED <<handlerFrame, game, date>>

\* The handler retrying the store call once when it fails.
get_player_by_id_Retry ==
    /\ req.route = "/api/players/{player_id}"
    /\ \/ /\ pc = "handler"
          /\ Invoke("players_repo.get_player_by_id")
          /\ UNCHANGED <<resp, raised>>
       \/ /\ pc = "resume"
          /\ IF pending # NoExc /\ Len(storeCalls) < 2
             THEN Invoke("players_repo.get_player_by_id") /\ UNCHANGED <<resp, raised>>
             ELSE /\ Send(get_player_by_id_body(pending, rows, req.id), date)
                  /\ UNCHANGED <<callVars, storeCalls>>
    /\ UNCHANGED <<handlerFrame, game, date>>

\* GET /api/players/{player_id}
get_player_by_id ==
    /\ req.route = "/api/players/{player_id}"
    /\ \/ /\ pc = "handler"
          /\ Invoke("players_repo.get_player_by_id")
          /\ UNCHANGED <<resp, raised>>
       \/ /\ pc = "resume"
          /\ Send(get_player_by_id_body(pending, rows, req.id), date)
          /\ UNCHANGED <<callVars, storeCalls>>
    /\ UNCHANGED <<handlerFrame, game, date>>

\* GET /api/games/{game_id}
get_game_detail ==
    /\ req.route = "/api/games/{game_id}"
    /\ \/ /\ pc = "handler"
          /\ Invoke("games_repo.get_game_by_id")
          /\ UNCHANGED <<resp, raised, game>>
       \/ /\ pc = "resume" /\ callFn = "games_repo.get_game_by_id"
          /\ IF pending # NoExc
             THEN Send(Raises(pending), date) /\ UNCHANGED <<callVars, storeCalls, game>>
             ELSE IF GameMissing(rows)
             THEN Send(Returns(GameNotFound(req.id)), date)
                  /\ UNCHANGED <<callVars, storeCalls, game>>
             ELSE /\ game' = rows
                  /\ Invoke("plays_repo.get_plays_by_game")
                  /\ UNCHANGED <<resp, raised>>
       \/ /\ pc = "resume" /\ callFn = "plays_repo.get_plays_by_game"
          /\ Send(get_game_detail_body(pending, game, rows), date)
          /\ UNCHANGED <<callVars, storeCalls, game>>
    /\ UNCHANGED <<handlerFrame, date>>

\* ------------------------------------------------------------ end of request
Reset ==
    /\ callFn' = NoCall /\ stage' = NoCall /\ pending' = NoExc /\ rows' = << >>
    /\ game' = NoRow /\ date' = NoDate /\ resp' = NoResp
    /\ storeCalls' = << >> /\ connsAcquired' = 0 /\ raised' = {}
    /\ readSnap' = NoSnap /\ wroteBetween' = FALSE

\* The client is done with the response.
Finish ==
    /\ pc = "done"
    /\ pc' = "idle"
    /\ req' = NoReq
    /\ prev' = NoPrev
    /\ dirty' = FALSE
    /\ Reset
    /\ UNCHANGED <<configVars, ticks, storeVars, openConns>>

\* The client sends the same request again.
Repeat ==
    /\ pc = "done"
    /\ prev = NoPrev
    /\ pc' = "security"
    /\ prev' = [status |-> resp.status, detail |-> resp.detail, data |-> resp.data,
                failed |-> (raised \cap StoreFailures # {}), date |-> date]
    /\ Reset
    /\ UNCHANGED <<configVars, ticks, storeVars, req, openConns, dirty>>

Next ==
    \/ Receive \/ Writer \/ Tick
    \/ Security \/ Validate
    \/ get_all_teams \/ get_active_teams \/ get_games_by_date
    \/ get_players_by_team \/ get_player_by_id \/ get_game_detail
    \/ get_db_connection \/ conn_cursor \/ cur_execute \/ cur_close \/ conn_close
    \/ Finish \/ Repeat

Spec == Init /\ [][Next]_vars


\* ================================================================ properties
Done == pc = "done"
Authenticated == secret # NoSecret /\ req # NoReq /\ req.cred = secret
Called(fn) == \E i \in 1..Len(storeCalls) : storeCalls[i] = fn
NoStoreCall == storeCalls = << >> /\ connsAcquired = 0 /\ openConns = 0
GameLookupReturnedNone ==
    callFn = "games_repo.get_game_by_id" /\ stage = "returned" /\ pending = NoExc /\ rows = NoRow

\* C1: on every data route a request whose bearer credential is missing or
\* differs from the configured secret ends with 401 and makes no store call at
\* any point.
C1_Unauthorized401 ==
    (pc # "idle" /\ secret # NoSecret /\ req.cred # secret)
        => /\ NoStoreCall
           /\ Done => resp.status = HTTP_401_UNAUTHORIZED

\* C2: in GET /api/games/{gameId} a game lookup that returns no game ends the
\* request with 404 and get_plays_by_game is never invoked; the plays fetch
\* happens only after the game fetch returned an existing game.
C2_NotFoundNoPlays ==
    (pc # "idle" /\ req.route = "/api/games/{game_id}")
        => /\ Called("plays_repo.get_plays_by_game")
                => /\ storeCalls = <<"games_repo.get_game_by_id", "plays_repo.get_plays_by_game">>
                   /\ game # NoRow
                   /\ readSnap # NoSnap
                   /\ game = readSnap.games[req.id]
           /\ (Done /\ GameLookupReturnedNone)
                => /\ resp.status = HTTP_404_NOT_FOUND
                   /\ ~Called("plays_repo.get_plays_by_game")

C2_Witness ==
    /\ Done /\ req.route = "/api/games/{game_id}" /\ GameLookupReturnedNone
    /\ resp.status = HTTP_404_NOT_FOUND
    /\ storeCalls = <<"games_repo.get_game_by_id">>


\* The date shape the specification asks for: four-digit year, two-digit month,
\* two-digit day, hyphen-separated, and nothing else (a digit being any decimal
\* digit).
IsoShape(d) ==
    /\ Len(d) = 10
    /\ \A i \in 1..10 : IF i \in {5, 8} THEN d[i] = "-" ELSE d[i] \in UnicodeDigits
UnknownZone(r) == Timezone(r) \notin {"America/New_York", "UTC", "Pacific/Auckland"}

\* C3: an authenticated GET /api/games whose timezone is not a recognized IANA
\* zone ends with 400 and makes no store call, whether or not a date was
\* supplied; the 400 is not turned into 500.
C3_InvalidTimezone400 ==
    (pc # "idle" /\ Authenticated /\ req.route = "/api/games" /\ UnknownZone(req))
        => /\ NoStoreCall
           /\ Done => resp.status = HTTP_400_BAD_REQUEST

\* C3 as amended: the same, for a date that is absent or has the YYYY-MM-DD
\* shape; with a malformed date the request is rejected with 422 before the
\* timezone is looked at.  No store call is made in either case.
C3_InvalidTimezone400_DateShaped ==
    (pc # "idle" /\ Authenticated /\ req.route = "/api/games" /\ UnknownZone(req))
        => /\ NoStoreCall
           /\ Done => resp.status = IF req.date = NoDate \/ IsoShape(req.date)
                                    THEN HTTP_400_BAD_REQUEST
                                    ELSE HTTP_422_UNPROCESSABLE_ENTITY

C3_Witness ==
    /\ Done /\ Authenticated /\ req.route = "/api/games" /\ UnknownZone(req)
    /\ req.date = Date_0115
    /\ resp.status = HTTP_400_BAD_REQUEST
    /\ storeCalls = << >>

\* C4: an authenticated GET /api/games whose date is malformed fails with 400
\* and the date never reaches the store.
C4_MalformedDate400 ==
    (pc # "idle" /\ Authenticated /\ req.route = "/api/games"
                 /\ req.date # NoDate /\ ~IsoShape(req.date))
        => /\ ~Called("games_repo.get_games_by_date")
           /\ Done => resp.status = HTTP_400_BAD_REQUEST

\* C4 as amended: such a request fails with 422 and the date never reaches the
\* store.
C4_MalformedDate422 ==
    (pc # "idle" /\ Authenticated /\ req.route = "/api/games"
                 /\ req.date # NoDate /\ ~IsoShape(req.date))
        => /\ ~Called("games_repo.get_games_by_date")
           /\ NoStoreCall
           /\ Done => resp.status = HTTP_422_UNPROCESSABLE_ENTITY

C4_Witness ==
    /\ Done /\ Authenticated /\ req.route = "/api/games"
    /\ req.date = Date_Trailing /\ ~UnknownZone(req)
    /\ resp.status = HTTP_422_UNPROCESSABLE_ENTITY
    /\ storeCalls = << >>

\* C5: every repository call acquires its own connection and has closed it by
\* the time it returns or raises, whichever statement failed; whenever no call
\* is running, no connection is open.
C5_ConnectionsReleased ==
    /\ pc # "repo" => openConns = 0
    /\ pc = "repo" => openConns = (IF stage = "connect" THEN 0 ELSE 1)
    /\ connsAcquired <= Len(storeCalls)
    /\ (pc = "resume" /\ pending # ExcConnect) => connsAcquired = Len(storeCalls)

C5_Witness ==
    /\ pc = "resume"
    /\ callFn = "plays_repo.get_plays_by_game"
    /\ pending = ExcCursorClose
    /\ connsAcquired = 2
    /\ openConns = 0

\* C6: with the bearer secret not configured, a data-route request fails as a
\* 500-class misconfiguration, never as 401, whatever credential is presented,
\* a missing one included.
C6_Misconfigured500 ==
    (Done /\ secret = NoSecret) => resp.status = HTTP_500_INTERNAL_SERVER_ERROR

\* C6 as amended: the same for every request that presents a bearer credential.
C6_Misconfigured500_Presented ==
    (Done /\ secret = NoSecret /\ req.cred # NoCred)
        => /\ resp = general_exception_handler(ExcEnv)
           /\ resp.status = HTTP_500_INTERNAL_SERVER_ERROR
           /\ NoStoreCall

C6_Witness ==
    /\ Done /\ secret = NoSecret /\ req.cred = "s3cret"
    /\ resp.status = HTTP_500_INTERNAL_SERVER_ERROR


NoExcText(r) == \A i \in 1..Len(r.detail) : r.detail[i] \notin ExcTexts
SameBody(r, q) == r.detail = q.detail /\ r.data = q.data
Repeated == prev # NoPrev

\* C7: an unanticipated failure during an authenticated request ends it with a
\* 500 whose body depends on the route and request parameters only; the text
\* of the exception never appears in it.
C7_Generic500_ParamsOnly ==
    (Done /\ Authenticated)
        => /\ raised # {} => (resp.status = HTTP_500_INTERNAL_SERVER_ERROR /\ NoExcText(resp))
           /\ (Repeated /\ prev.status = HTTP_500_INTERNAL_SERVER_ERROR
                        /\ resp.status = HTTP_500_INTERNAL_SERVER_ERROR)
                => SameBody(resp, prev)

\* C7 as amended: the body depends on the route, the request parameters and,
\* for GET /api/games without a date, the date resolved as today.
C7_Generic500 ==
    (Done /\ Authenticated)
        => /\ raised # {} => (resp.status = HTTP_500_INTERNAL_SERVER_ERROR /\ NoExcText(resp))
           /\ (Repeated /\ prev.status = HTTP_500_INTERNAL_SERVER_ERROR
                        /\ resp.status = HTTP_500_INTERNAL_SERVER_ERROR
                        /\ date = prev.date)
                => SameBody(resp, prev)

C7_Witness ==
    /\ Done /\ Authenticated /\ Repeated
    /\ req.route = "/api/games" /\ req.date = NoDate
    /\ raised = {ExcExecute} /\ prev.failed
    /\ prev.status = HTTP_500_INTERNAL_SERVER_ERROR
    /\ resp.status = HTTP_500_INTERNAL_SERVER_ERROR
    /\ resp.detail = <<"Failed to fetch games for date ">> \o date

\* C8: repeating a GET with identical parameters against an unchanged (and
\* reachable) store yields an identical response, on every route and for every
\* parameter combination, GET /api/games without a date included.
C8_Idempotent ==
    (Done /\ Repeated /\ ~dirty /\ ~prev.failed /\ raised \cap StoreFailures = {})
        => (resp.status = prev.status /\ SameBody(resp, prev))

\* C8 as amended: the same whenever a date is supplied or both requests
\* resolve today to the same calendar date.
C8_Idempotent_SameDay ==
    (Done /\ Repeated /\ ~dirty /\ ~prev.failed /\ raised \cap StoreFailures = {}
          /\ (req.date # NoDate \/ date = prev.date))
        => (resp.status = prev.status /\ SameBody(resp, prev))

C8_Witness ==
    /\ Done /\ Repeated /\ ~dirty /\ ~prev.failed /\ raised = {}
    /\ req.route = "/api/games" /\ req.date = NoDate /\ ticks > 0
    /\ date = prev.date
    /\ resp.status = HTTP_200_OK /\ resp.data # << >>
    /\ prev.status = HTTP_200_OK /\ SameBody(resp, prev)

\* C9: an authenticated GET /api/games/{gameId} for an existing game whose
\* plays query returns no row ends with 200 and a GameDetail of that game with
\* an empty plays sequence; 404 is only ever the answer to a game lookup that
\* returned no game.
C9_EmptyPlays200 ==
    (Done /\ Authenticated /\ req.route = "/api/games/{game_id}")
        => /\ (callFn = "plays_repo.get_plays_by_game" /\ pending = NoExc /\ rows = << >>)
                => /\ resp.status = HTTP_200_OK
                   /\ resp.data = <<[game |-> GameResponse(readSnap.games[req.id]),
                                     plays |-> << >>]>>
           /\ resp.status = HTTP_404_NOT_FOUND => GameLookupReturnedNone

C9_Witness ==
    /\ Done /\ Authenticated /\ req.route = "/api/games/{game_id}" /\ req.id = 1
    /\ {p \in plays : p.playGameId = 1} = {}
    /\ resp.status = HTTP_200_OK
    /\ resp.data[1].plays = << >>
    /\ resp.data[1].game.gameId = 1

\* C10: the game read and the plays read of GET /api/games/{gameId} are two
\* separate reads: when nothing is written between them the 200 response shows
\* the game and the plays of one store state (and no play of a later period
\* than the game's); a write in between can yield a response that does not.
PlaysOf(snap, id) == {PlayResponse(p) : p \in {x \in snap.plays : x.playGameId = id}}
C10_ConsistentWithoutWrite ==
    (Done /\ req.route = "/api/games/{game_id}" /\ resp.status = HTTP_200_OK /\ ~wroteBetween)
        => LET detail == resp.data[1]
           IN  /\ detail.game = GameResponse(readSnap.games[req.id])
               /\ {detail.plays[i] : i \in 1..Len(detail.plays)} = PlaysOf(readSnap, req.id)
               /\ Len(detail.plays) = Cardinality(PlaysOf(readSnap, req.id))
               /\ \A i \in 1..Len(detail.plays) :
                      detail.plays[i].playPeriod <= detail.game.gamePeriod

C10_Witness ==
    /\ Done /\ req.route = "/api/games/{game_id}" /\ resp.status = HTTP_200_OK
    /\ wroteBetween
    /\ \E i \in 1..Len(resp.data[1].plays) :
           resp.data[1].plays[i].playPeriod > resp.data[1].game.gamePeriod


StoreFailed == raised \cap StoreFailures # {}

\* C11: no request retries a store call: each repository function is invoked
\* at most once per request (one call at most on the list and single-record
\* routes; on the game-detail route the game call and then the plays call,
\* the second starting only after the first has closed its connection), and
\* once a store call has failed no further store call is made and the request
\* ends with 500.
C11_NoRetry ==
    pc # "idle"
        => /\ \A i, j \in 1..Len(storeCalls) : storeCalls[i] = storeCalls[j] => i = j
           /\ IF req.route = "/api/games/{game_id}"
              THEN storeCalls \in {<< >>, <<"games_repo.get_game_by_id">>,
                                   <<"games_repo.get_game_by_id", "plays_repo.get_plays_by_game">>}
              ELSE Len(storeCalls) <= 1
           /\ openConns <= 1
           /\ (pc = "repo" /\ stage = "connect") => openConns = 0
           /\ (Len(storeCalls) > 0 /\ pc \in {"repo", "resume"})
                => callFn = storeCalls[Len(storeCalls)]
           /\ StoreFailed
                => /\ pc \in {"repo", "resume", "done"}
                   /\ pc \in {"repo", "resume"} => pending \in StoreFailures
                   /\ Done => resp.status = HTTP_500_INTERNAL_SERVER_ERROR

C11_Witness ==
    /\ Done /\ req.route = "/api/games/{game_id}"
    /\ storeCalls = <<"games_repo.get_game_by_id">>
    /\ raised = {ExcExecute}
    /\ connsAcquired = 1
    /\ resp.status = HTTP_500_INTERNAL_SERVER_ERROR

====
